---- MODULE Spec2Model ----
(***************************************************************************)
(* URL shortener: short-code allocation (ShortURLCreateSerializer.create,  *)
(* ShortURL.save and the unique constraint on (domain, short_code)),       *)
(* redirect resolution with its two side effects (ShortURL.is_expired,     *)
(* ShortURL.increment_clicks, ClickAnalytics) and the domain registry       *)
(* (DomainConfiguration, the handlers of internal_views.py and             *)
(* caddy_validate_domain) over one relational store.                       *)
(*                                                                         *)
(* Every request handler is a process; a step of a process is one access   *)
(* to the store (a SELECT, an INSERT or an UPDATE), which the store        *)
(* executes atomically.  Steps of different requests interleave freely.    *)
(***************************************************************************)
EXTENDS Integers, Sequences, FiniteSets, TLC

(***************************************************************************)
(* Bounds of the model.                                                    *)
(***************************************************************************)
NumAlloc == 2
NumResolve == 2
NumDraws == 2
MaxTime == 2

(***************************************************************************)
(* Program constants.                                                      *)
(***************************************************************************)
max_attempts == 10
DefaultLength == 6
FallbackLength == 8

AllocProcs == 1..NumAlloc
RegistryProcs == {1, 2}
SequentialProcs == {1}
ResolveProcs == 1..NumResolve
Times == 0..MaxTime

(***************************************************************************)
(* Values.  An optional value is a sequence of length at most one: Blank   *)
(* stands for an absent, None or empty value (all falsy in Python).        *)
(* A short code is a string that is only ever compared for equality and    *)
(* measured for length: [length, draw] is the draw-th string of that       *)
(* length.  A URL is the sequence of its characters.                       *)
(***************************************************************************)
Blank == <<>>
Some(v) == <<v>>
Truthy(opt) == opt # Blank
Get(opt) == opt[1]

Domains == {"go.example"}
Hosts == {"go.example"}
NoRequest == ""
Localhost == "localhost"

Code(n, k) == [length |-> n, draw |-> k]
ExplicitCodes == {Code(5, 1), Code(DefaultLength, 1)}

HttpPrefix == <<"h", "t", "t", "p", ":", "/", "/">>
HttpsPrefix == <<"h", "t", "t", "p", "s", ":", "/", "/">>
UrlHttp == HttpPrefix \o <<"a">>
UrlHttps == HttpsPrefix \o <<"b">>
UrlFtp == <<"f", "t", "p", ":", "/", "/", "a">>
URLs == {UrlHttp, UrlHttps, UrlFtp}

NoneValue == [kind |-> "none"]
DateTime(t, tz) == [kind |-> "datetime", t |-> t, aware |-> tz]
Str(chars) == [kind |-> "str", chars |-> chars]

VARIABLES
    short_urls,       \* table short_urls: set of rows
    click_analytics,  \* table click_analytics: set of rows
    now,              \* the clock read by timezone.now()
    USE_TZ,           \* settings.USE_TZ: timezone.now() is timezone-aware
    apc,              \* allocate request: position of the handler
    req,              \* allocate request: the request body and context
    inst,             \* allocate request: the ShortURL instance being saved
    attempt,          \* allocate request: iterations of the loop of save
    generated,        \* allocate request: calls of generate_short_code
    inserts,          \* allocate request: INSERT statements issued
    resp,             \* allocate request: outcome returned to the caller
    rpc,              \* resolve request: position of the handler
    rreq,             \* resolve request: the (domain, code) asked for
    obj,              \* resolve request: the ShortURL instance looked up
    pending,          \* resolve request: side effects not yet executed
    out,              \* resolve request: outcome returned to the caller
    exp_in,           \* expiry check: the expires_at value given
    exp_out,          \* expiry check: result of ShortURL.is_expired
    ser_out,          \* expiry check: result of get_is_expired
    domain_configurations, \* table domain_configurations: set of rows
    dpc,              \* registry request: position of the handler
    dreq,             \* registry request: the call and its arguments
    dobj,             \* registry request: the DomainConfiguration instance
    dresp             \* registry request: response returned to the caller

allocVars == <<apc, req, inst, attempt, generated, inserts, resp>>
resolveVars == <<rpc, rreq, obj, pending, out>>
expiryVars == <<exp_in, exp_out, ser_out>>
registryVars == <<domain_configurations, dpc, dreq, dobj, dresp>>
vars == <<short_urls, click_analytics, now, USE_TZ, allocVars, resolveVars,
          expiryVars, registryVars>>

(***************************************************************************)
(* models.py: generate_short_code.  Every string of the given length may   *)
(* be drawn.                                                               *)
(***************************************************************************)
generate_short_code(length) == {Code(length, k) : k \in 1..NumDraws}

(***************************************************************************)
(* serializers.py: validate_original_url.                                  *)
(***************************************************************************)
startswith(s, prefix) ==
    /\ Len(s) >= Len(prefix)
    /\ SubSeq(s, 1, Len(prefix)) = prefix

validate_original_url(value) ==
    startswith(value, HttpPrefix) \/ startswith(value, HttpsPrefix)

(***************************************************************************)
(* serializers.py: the domain chosen by ShortURLCreateSerializer.create:   *)
(* the supplied one, else the host of the request, else localhost.         *)
(***************************************************************************)
create_domain(domain, host) ==
    IF domain # "" THEN domain
    ELSE IF host # NoRequest THEN host
    ELSE Localhost

(***************************************************************************)
(* serializers.py: create removes an empty short_code, so the instance     *)
(* carries the supplied code or none.                                      *)
(***************************************************************************)
create_short_code_drop(short_code) == Blank

create_short_code(short_code) ==
    IF Truthy(short_code) THEN short_code ELSE Blank

(***************************************************************************)
(* models.py: the existence check of save,                                 *)
(* ShortURL.objects.filter(short_code=code, domain=self.domain).exists().  *)
(***************************************************************************)
exists_any_domain(table, code, domain) ==
    \E r \in table : r.short_code = code

exists(table, code, domain) ==
    \E r \in table : r.short_code = code /\ r.domain = domain

(***************************************************************************)
(* models.py: Meta.constraints, the unique constraint on                   *)
(* (domain, short_code) that the store checks on INSERT.                   *)
(***************************************************************************)
unique_none(table, row) == FALSE

short_urls_domain_short_code_unique(table, row) ==
    \E r \in table : r.domain = row.domain /\ r.short_code = row.short_code

(***************************************************************************)
(* models.py: save generates a code only when the instance has none.       *)
(***************************************************************************)
needs_code_always(short_code) == TRUE

needs_code(short_code) == ~Truthy(short_code)

(***************************************************************************)
(* django.utils.timezone.now(): timezone-aware exactly when USE_TZ is set. *)
(***************************************************************************)
timezone_now(t) == DateTime(t, USE_TZ)

(***************************************************************************)
(* a > b on datetimes: Python raises TypeError when one is timezone-aware  *)
(* and the other is naive.                                                 *)
(***************************************************************************)
datetime_ge(a, b) ==
    IF a.aware # b.aware THEN "TypeError"
    ELSE IF a.t >= b.t THEN "True" ELSE "False"

datetime_gt(a, b) ==
    IF a.aware # b.aware THEN "TypeError"
    ELSE IF a.t > b.t THEN "True" ELSE "False"

(***************************************************************************)
(* dateutil.parser.parse on a string-encoded timestamp: decimal digits     *)
(* give the time (naive), digits followed by Z give the time in UTC        *)
(* (aware); anything else raises ParserError, a ValueError.                *)
(***************************************************************************)
Digits == {"0", "1", "2"}
ExpiryChars == Digits \cup {"Z", "x"}

DigitValue(c) == CASE c = "0" -> 0 [] c = "1" -> 1 [] c = "2" -> 2

IsDigits(s) == Len(s) > 0 /\ \A i \in 1..Len(s) : s[i] \in Digits

RECURSIVE Decimal(_)
Decimal(s) ==
    IF s = <<>> THEN 0
    ELSE 10 * Decimal(SubSeq(s, 1, Len(s) - 1)) + DigitValue(s[Len(s)])

ParserError == [kind |-> "error"]

parse(chars) ==
    IF IsDigits(chars) THEN DateTime(Decimal(chars), FALSE)
    ELSE IF /\ Len(chars) > 1
            /\ chars[Len(chars)] = "Z"
            /\ IsDigits(SubSeq(chars, 1, Len(chars) - 1))
         THEN DateTime(Decimal(SubSeq(chars, 1, Len(chars) - 1)), TRUE)
    ELSE ParserError

(***************************************************************************)
(* models.py: ShortURL.is_expired.  The result is "True" or "False", or    *)
(* the exception that escapes the method.                                  *)
(***************************************************************************)
PyTruthy(value) ==
    CASE value.kind = "none" -> FALSE
      [] value.kind = "str" -> value.chars # <<>>
      [] value.kind = "datetime" -> TRUE

is_expired_inverted(expires_at, t) ==
    IF PyTruthy(expires_at)
    THEN IF expires_at.kind = "str"
         THEN LET expires_dt == parse(expires_at.chars) IN
              IF expires_dt = ParserError THEN "ValueError"
              ELSE datetime_gt(expires_dt, timezone_now(t))
         ELSE datetime_gt(expires_at, timezone_now(t))
    ELSE "False"

is_expired(expires_at, t) ==
    IF PyTruthy(expires_at)
    THEN IF expires_at.kind = "str"
         THEN LET expires_dt == parse(expires_at.chars) IN
              IF expires_dt = ParserError THEN "ValueError"
              ELSE datetime_gt(timezone_now(t), expires_dt)
         ELSE datetime_gt(timezone_now(t), expires_at)
    ELSE "False"

(***************************************************************************)
(* serializers.py: ShortURLResponseSerializer.get_is_expired catches       *)
(* TypeError and ValueError and answers False.                             *)
(***************************************************************************)
get_is_expired(expires_at, t) ==
    LET r == is_expired(expires_at, t) IN
    IF r \in {"TypeError", "ValueError"} THEN "False" ELSE r

(***************************************************************************)
(* models.py: ShortURL.increment_clicks, one UPDATE of the row whose pk    *)
(* is that of the instance, relative to the stored value.                  *)
(***************************************************************************)
increment_clicks_read_write(table, self) ==
    {IF r.id = self.id THEN [r EXCEPT !.clicks = self.clicks + 1] ELSE r :
        r \in table}

increment_clicks_unfiltered(table, self) ==
    {[r EXCEPT !.clicks = @ + 1] : r \in table}

increment_clicks(table, self) ==
    {IF r.id = self.id THEN [r EXCEPT !.clicks = @ + 1] ELSE r : r \in table}

(***************************************************************************)
(* The row INSERTed for an instance: the fields of the instance and the    *)
(* defaults of the model (clicks 0, is_active True).                       *)
(***************************************************************************)
NewRow(table, i) ==
    [id |-> Cardinality(table) + 1,
     domain |-> i.domain,
     short_code |-> Get(i.short_code),
     original_url |-> i.original_url,
     expires_at |-> i.expires_at,
     clicks |-> 0,
     is_active |-> TRUE]

NoOutcome == [status |-> "none", url |-> <<>>]
Failure(status) == [status |-> status, url |-> <<>>]

NoRow ==
    [id |-> 0, domain |-> "", short_code |-> Code(0, 0), original_url |-> <<>>,
     expires_at |-> NoneValue, clicks |-> 0, is_active |-> TRUE]

NoInstance ==
    [domain |-> "", short_code |-> Blank, original_url |-> <<>>,
     expires_at |-> NoneValue]

NoRequestBody ==
    [original_url |-> <<>>, domain |-> "", host |-> NoRequest,
     short_code |-> Blank, expires_at |-> NoneValue]

(***************************************************************************)
(* The error the caller of allocate sees when the INSERT is rejected.      *)
(***************************************************************************)
IntegrityErrorResponse(short_code) ==
    IF Truthy(short_code) THEN "ConflictError" ELSE "AllocationExhausted"

(***************************************************************************)
(* allocate, step 1: validation and ShortURLCreateSerializer.create up to  *)
(* the entry of ShortURL.save.                                             *)
(***************************************************************************)
AllocateStart(p, body) ==
    /\ apc[p] = "idle"
    /\ req' = [req EXCEPT ![p] = body]
    /\ IF validate_original_url(body.original_url)
       THEN /\ inst' = [inst EXCEPT ![p] =
                   [domain |-> create_domain(body.domain, body.host),
                    short_code |-> create_short_code(body.short_code),
                    original_url |-> body.original_url,
                    expires_at |-> body.expires_at]]
            /\ apc' = [apc EXCEPT ![p] = "save"]
            /\ resp' = resp
       ELSE /\ apc' = [apc EXCEPT ![p] = "done"]
            /\ resp' = [resp EXCEPT ![p] = "ValidationError"]
            /\ inst' = inst
    /\ UNCHANGED registryVars
    /\ UNCHANGED <<short_urls, click_analytics, now, USE_TZ, attempt,
                   generated, inserts, resolveVars, expiryVars>>

(***************************************************************************)
(* allocate, step 2: ShortURL.save up to super().save().  With a code the  *)
(* instance goes to the INSERT directly.  Without one, each step is one    *)
(* iteration of the loop: a code is generated and looked up; the first     *)
(* code not found is taken; after max_attempts codes found, a longer code  *)
(* is generated and taken unchecked.                                       *)
(***************************************************************************)
SaveWithCode(p) ==
    /\ apc[p] = "save"
    /\ ~needs_code(inst[p].short_code)
    /\ apc' = [apc EXCEPT ![p] = "insert"]
    /\ UNCHANGED registryVars
    /\ UNCHANGED <<short_urls, click_analytics, now, USE_TZ, req, inst,
                   attempt, generated, inserts, resp, resolveVars, expiryVars>>

SaveTryCode(p) ==
    /\ apc[p] = "save"
    /\ needs_code(inst[p].short_code)
    /\ attempt[p] < max_attempts
    /\ \E code \in generate_short_code(DefaultLength) :
          /\ generated' = [generated EXCEPT ![p] = @ + 1]
          /\ attempt' = [attempt EXCEPT ![p] = @ + 1]
          /\ IF ~exists(short_urls, code, inst[p].domain)
             THEN /\ inst' = [inst EXCEPT ![p].short_code = Some(code)]
                  /\ apc' = [apc EXCEPT ![p] = "insert"]
             ELSE /\ inst' = inst
                  /\ apc' = apc
    /\ UNCHANGED registryVars
    /\ UNCHANGED <<short_urls, click_analytics, now, USE_TZ, req, inserts,
                   resp, resolveVars, expiryVars>>

SaveFallbackChecked(p) ==
    /\ apc[p] = "save"
    /\ needs_code(inst[p].short_code)
    /\ attempt[p] = max_attempts
    /\ \E code \in generate_short_code(FallbackLength) :
          /\ generated' = [generated EXCEPT ![p] = @ + 1]
          /\ IF ~exists(short_urls, code, inst[p].domain)
             THEN /\ inst' = [inst EXCEPT ![p].short_code = Some(code)]
                  /\ apc' = [apc EXCEPT ![p] = "insert"]
             ELSE /\ inst' = inst
                  /\ apc' = apc
    /\ UNCHANGED registryVars
    /\ UNCHANGED <<short_urls, click_analytics, now, USE_TZ, req, attempt,
                   inserts, resp, resolveVars, expiryVars>>

SaveFallback(p) ==
    /\ apc[p] = "save"
    /\ needs_code(inst[p].short_code)
    /\ attempt[p] = max_attempts
    /\ \E code \in generate_short_code(FallbackLength) :
          /\ generated' = [generated EXCEPT ![p] = @ + 1]
          /\ inst' = [inst EXCEPT ![p].short_code = Some(code)]
    /\ apc' = [apc EXCEPT ![p] = "insert"]
    /\ UNCHANGED registryVars
    /\ UNCHANGED <<short_urls, click_analytics, now, USE_TZ, req, attempt,
                   inserts, resp, resolveVars, expiryVars>>

(***************************************************************************)
(* allocate, step 3: super().save(), one INSERT.  The store rejects it     *)
(* when the unique constraint is violated and the request fails.           *)
(***************************************************************************)
InsertSwallowsError(p) ==
    /\ apc[p] = "insert"
    /\ inserts' = [inserts EXCEPT ![p] = @ + 1]
    /\ apc' = [apc EXCEPT ![p] = "done"]
    /\ resp' = [resp EXCEPT ![p] = "Created"]
    /\ LET row == NewRow(short_urls, inst[p]) IN
       IF short_urls_domain_short_code_unique(short_urls, row)
       THEN short_urls' = short_urls
       ELSE short_urls' = short_urls \cup {row}
    /\ UNCHANGED registryVars
    /\ UNCHANGED <<click_analytics, now, USE_TZ, req, inst, attempt,
                   generated, resolveVars, expiryVars>>

Insert(p) ==
    /\ apc[p] = "insert"
    /\ inserts' = [inserts EXCEPT ![p] = @ + 1]
    /\ apc' = [apc EXCEPT ![p] = "done"]
    /\ LET row == NewRow(short_urls, inst[p]) IN
       IF short_urls_domain_short_code_unique(short_urls, row)
       THEN /\ short_urls' = short_urls
            /\ resp' = [resp EXCEPT ![p] =
                           IntegrityErrorResponse(req[p].short_code)]
       ELSE /\ short_urls' = short_urls \cup {row}
            /\ resp' = [resp EXCEPT ![p] = "Created"]
    /\ UNCHANGED registryVars
    /\ UNCHANGED <<click_analytics, now, USE_TZ, req, inst, attempt,
                   generated, resolveVars, expiryVars>>

(***************************************************************************)
(* The allocate requests of the allocation runs: valid ones with and       *)
(* without a domain and a code, called outside a request, and one with a   *)
(* URL that validation refuses.                                            *)
(***************************************************************************)
AllocBodies ==
    [original_url : {UrlHttp},
     domain : {""} \cup Domains,
     host : {NoRequest},
     short_code : {Blank} \cup {Some(c) : c \in ExplicitCodes},
     expires_at : {NoneValue}]
    \cup
    {[original_url |-> UrlFtp, domain |-> "", host |-> NoRequest,
      short_code |-> Blank, expires_at |-> NoneValue]}

(***************************************************************************)
(* Domain registry: the table domain_configurations and the handlers of    *)
(* internal_views.py and config/urls.py.  A domain name is the sequence    *)
(* of its characters.                                                      *)
(***************************************************************************)
DomA == <<"a", ".", "c", "c">>
DomAUpper == <<"A", ".", "C", "C">>
DomB == <<"b", ".", "c", "c">>
DomNoTld == <<"a", "c", "c">>
DomHyphen == <<"-", "a", ".", "c", "c">>
NoDomain == <<>>

LowerLetters == {"a", "b", "c"}
UpperLetters == {"A", "B", "C"}
Letters == LowerLetters \cup UpperLetters

(***************************************************************************)
(* str.lower().                                                            *)
(***************************************************************************)
LowerChar(ch) ==
    CASE ch = "A" -> "a" [] ch = "B" -> "b" [] ch = "C" -> "c" [] OTHER -> ch

lower(s) == [i \in 1..Len(s) |-> LowerChar(s[i])]

(***************************************************************************)
(* serializers.py: domain_pattern of validate_domain: one or more labels   *)
(* of letters, digits and inner hyphens, each followed by a dot, then a    *)
(* top-level name of two or more letters.                                  *)
(***************************************************************************)
IsAlnum(ch) == ch \in Letters \cup Digits

IsLabels(s) ==
    /\ Len(s) > 1
    /\ s[Len(s)] = "."
    /\ \A i \in 1..Len(s) : IsAlnum(s[i]) \/ s[i] \in {"-", "."}
    /\ IsAlnum(s[1])
    /\ \A i \in 1..Len(s) :
           s[i] = "." => /\ i > 1
                         /\ IsAlnum(s[i - 1])
                         /\ i < Len(s) => IsAlnum(s[i + 1])

domain_pattern(value) ==
    \E i \in 1..Len(value) :
        /\ IsLabels(SubSeq(value, 1, i))
        /\ Len(value) - i >= 2
        /\ \A j \in (i + 1)..Len(value) : value[j] \in Letters

(***************************************************************************)
(* serializers.py: DomainConfigureRequestSerializer.  A field that the     *)
(* request leaves out is Blank.  validated_data carries the defaults of    *)
(* domain_type and use_caddy; notes stays absent when it is left out.      *)
(***************************************************************************)
DomainTypes == {"forms", "payment", "other"}

is_valid(data) ==
    /\ domain_pattern(data.domain)
    /\ Truthy(data.account_id)
    /\ Truthy(data.domain_type) => Get(data.domain_type) \in DomainTypes

validated_data(data) ==
    [domain |-> lower(data.domain),
     account_id |-> Get(data.account_id),
     domain_type |-> IF Truthy(data.domain_type) THEN Get(data.domain_type)
                     ELSE "forms",
     use_caddy |-> IF Truthy(data.use_caddy) THEN Get(data.use_caddy)
                   ELSE TRUE,
     notes |-> data.notes]

(***************************************************************************)
(* models.py: DomainConfiguration.  NoConfig stands for None.              *)
(***************************************************************************)
SSL_STATUS_CHOICES == {"pending", "active", "failed", "expired"}

NoConfig ==
    [id |-> 0, domain |-> NoDomain, account_id |-> 0, domain_type |-> "forms",
     is_verified |-> FALSE, is_active |-> TRUE, ssl_status |-> "pending",
     ssl_issued_at |-> NoneValue, ssl_expires_at |-> NoneValue,
     use_caddy |-> TRUE, notes |-> <<>>]

(***************************************************************************)
(* django.utils.dateparse.parse_datetime: a well-formatted text gives the  *)
(* instant it names, or raises ValueError when it names none (such as a    *)
(* thirteenth month); any other text gives None.  Digits are the           *)
(* well-formatted texts; those above the last instant name none.           *)
(***************************************************************************)
parse_datetime(chars) ==
    IF IsDigits(chars)
    THEN IF Decimal(chars) \in Times THEN DateTime(Decimal(chars), FALSE)
         ELSE ParserError
    ELSE NoneValue

(***************************************************************************)
(* QuerySet.filter(domain=...).first() and QuerySet.get(...): the row, or  *)
(* NoConfig for None and for DoesNotExist.                                 *)
(***************************************************************************)
first(rows) == IF rows = {} THEN NoConfig ELSE CHOOSE r \in rows : TRUE

filter_domain(table, domain) == {r \in table : r.domain = domain}

(***************************************************************************)
(* internal_views.py: configure_domain, the fields written on              *)
(* reactivation and the instance built by objects.create.                  *)
(***************************************************************************)
reactivate_keep_owner(existing, data) ==
    [existing EXCEPT !.is_active = TRUE,
                     !.domain_type = data.domain_type,
                     !.use_caddy = data.use_caddy,
                     !.notes = IF Truthy(data.notes) THEN Get(data.notes)
                               ELSE <<>>,
                     !.ssl_status = "pending"]

reactivate_reset_dates(existing, data) ==
    [existing EXCEPT !.is_active = TRUE,
                     !.account_id = data.account_id,
                     !.domain_type = data.domain_type,
                     !.use_caddy = data.use_caddy,
                     !.notes = IF Truthy(data.notes) THEN Get(data.notes)
                               ELSE <<>>,
                     !.ssl_status = "pending",
                     !.ssl_issued_at = NoneValue,
                     !.ssl_expires_at = NoneValue]

reactivate_unverify(existing, data) ==
    [existing EXCEPT !.is_active = TRUE,
                     !.account_id = data.account_id,
                     !.domain_type = data.domain_type,
                     !.use_caddy = data.use_caddy,
                     !.notes = IF Truthy(data.notes) THEN Get(data.notes)
                               ELSE <<>>,
                     !.ssl_status = "pending",
                     !.is_verified = FALSE]

reactivate(existing, data) ==
    [existing EXCEPT !.is_active = TRUE,
                     !.account_id = data.account_id,
                     !.domain_type = data.domain_type,
                     !.use_caddy = data.use_caddy,
                     !.notes = IF Truthy(data.notes) THEN Get(data.notes)
                               ELSE <<>>,
                     !.ssl_status = "pending"]

new_config(data) ==
    [id |-> 0,
     domain |-> data.domain,
     account_id |-> data.account_id,
     domain_type |-> data.domain_type,
     use_caddy |-> data.use_caddy,
     notes |-> IF Truthy(data.notes) THEN Get(data.notes) ELSE <<>>,
     is_active |-> TRUE,
     is_verified |-> FALSE,
     ssl_status |-> "pending",
     ssl_issued_at |-> NoneValue,
     ssl_expires_at |-> NoneValue]

(***************************************************************************)
(* internal_views.py: remove_domain, the soft path.                        *)
(***************************************************************************)
deactivate_and_unverify(domain_config) ==
    [domain_config EXCEPT !.is_active = FALSE, !.is_verified = FALSE]

deactivate(domain_config) == [domain_config EXCEPT !.is_active = FALSE]

(***************************************************************************)
(* internal_views.py: update_domain_ssl_status, the fields set from the    *)
(* request body before save.  A text that parse_datetime rejects with      *)
(* ValueError ends the handler: the result is ParserError.                 *)
(***************************************************************************)
SetIfGiven(current, text) ==
    IF Truthy(text) THEN parse_datetime(Get(text)) ELSE current

report_ssl_unverified(domain_config, data) ==
    LET issued == SetIfGiven(domain_config.ssl_issued_at, data.ssl_issued_at)
        expires == SetIfGiven(domain_config.ssl_expires_at,
                              data.ssl_expires_at)
    IN  IF issued = ParserError \/ expires = ParserError THEN ParserError
        ELSE [domain_config EXCEPT
                 !.ssl_status = IF Truthy(data.ssl_status)
                                THEN Get(data.ssl_status) ELSE @,
                 !.ssl_issued_at = issued,
                 !.ssl_expires_at = expires]

report_ssl(domain_config, data) ==
    LET issued == SetIfGiven(domain_config.ssl_issued_at, data.ssl_issued_at)
        expires == SetIfGiven(domain_config.ssl_expires_at,
                              data.ssl_expires_at)
    IN  IF issued = ParserError \/ expires = ParserError THEN ParserError
        ELSE [domain_config EXCEPT
                 !.ssl_status = IF Truthy(data.ssl_status)
                                THEN Get(data.ssl_status) ELSE @,
                 !.ssl_issued_at = issued,
                 !.ssl_expires_at = expires,
                 !.is_verified = IF data.ssl_status = Some("active")
                                 THEN TRUE ELSE @]

(***************************************************************************)
(* The store.  Model.save() of an instance with a primary key: UPDATE of   *)
(* every field of the row with that key and, when no row has it, INSERT    *)
(* of the instance.  objects.create: INSERT under a fresh key.  The        *)
(* UNIQUE constraint on domain rejects the statement with IntegrityError.  *)
(* A key is fresh when no row and no instance held by a request has it.    *)
(***************************************************************************)
domain_unique_none(table, row) == TRUE

domain_unique(table, row) ==
    \A r \in table : r.domain = row.domain => r.id = row.id

save(table, self) ==
    IF domain_unique(table, self)
    THEN [IntegrityError |-> FALSE,
          table |-> {r \in table : r.id # self.id} \cup {self}]
    ELSE [IntegrityError |-> TRUE, table |-> table]

next_pk(table, held) ==
    CHOOSE n \in 1..(Cardinality(table) + Cardinality(held) + 1) :
        /\ n \notin {r.id : r \in table} \cup {r.id : r \in held}
        /\ \A m \in 1..(n - 1) :
               m \in {r.id : r \in table} \cup {r.id : r \in held}

create(table, held, instance) ==
    save(table, [instance EXCEPT !.id = next_pk(table, held)])

delete(table, self) ==
    [IntegrityError |-> FALSE, table |-> {r \in table : r.id # self.id}]

(***************************************************************************)
(* Requests and responses.                                                 *)
(***************************************************************************)
NoCall == [op |-> "none", domain |-> NoDomain, data |-> <<>>]
Call(op, domain, data) == [op |-> op, domain |-> domain, data |-> data]

NoResponse == [status |-> "none", data |-> {}, allow |-> FALSE]
Response(status, data) == [status |-> status, data |-> data, allow |-> FALSE]
JsonResponse(status, allow) == [status |-> status, data |-> {}, allow |-> allow]

Idle(p) == dpc[p] = "idle"

Answer(p, call, response) ==
    /\ dpc' = [dpc EXCEPT ![p] = "done"]
    /\ dreq' = [dreq EXCEPT ![p] = call]
    /\ dobj' = [dobj EXCEPT ![p] = NoConfig]
    /\ dresp' = [dresp EXCEPT ![p] = response]
    /\ UNCHANGED domain_configurations

Proceed(p, call, instance, step) ==
    /\ dpc' = [dpc EXCEPT ![p] = step]
    /\ dreq' = [dreq EXCEPT ![p] = call]
    /\ dobj' = [dobj EXCEPT ![p] = instance]
    /\ dresp' = [dresp EXCEPT ![p] = NoResponse]
    /\ UNCHANGED domain_configurations

(***************************************************************************)
(* internal_views.py: configure_domain up to its write.                    *)
(***************************************************************************)
configure_domain_overwrites(p, body) ==
    /\ Idle(p)
    /\ LET call == Call("configure", body.domain, body) IN
       IF ~is_valid(body)
       THEN Answer(p, call, Response("HTTP_400_BAD_REQUEST", {}))
       ELSE LET data == validated_data(body)
                existing == first(filter_domain(domain_configurations,
                                                data.domain))
            IN  IF existing # NoConfig
                THEN Proceed(p, call, reactivate(existing, data), "save")
                ELSE Proceed(p, call, new_config(data), "create")
    /\ UNCHANGED <<short_urls, click_analytics, now, USE_TZ, allocVars,
                   resolveVars, expiryVars>>

configure_domain(p, body) ==
    /\ Idle(p)
    /\ LET call == Call("configure", body.domain, body) IN
       IF ~is_valid(body)
       THEN Answer(p, call, Response("HTTP_400_BAD_REQUEST", {}))
       ELSE LET data == validated_data(body)
                existing == first(filter_domain(domain_configurations,
                                                data.domain))
            IN  IF existing # NoConfig
                THEN IF existing.is_active
                     THEN Answer(p, call, Response("HTTP_409_CONFLICT", {}))
                     ELSE Proceed(p, call, reactivate(existing, data), "save")
                ELSE Proceed(p, call, new_config(data), "create")
    /\ UNCHANGED <<short_urls, click_analytics, now, USE_TZ, allocVars,
                   resolveVars, expiryVars>>

(***************************************************************************)
(* internal_views.py: get_domain_status.                                   *)
(***************************************************************************)
get_domain_status(p, domain) ==
    /\ Idle(p)
    /\ LET call == Call("get_status", domain, <<>>)
           domain_config == first(filter_domain(domain_configurations,
                                                lower(domain)))
       IN  IF domain_config = NoConfig
           THEN Answer(p, call, Response("HTTP_404_NOT_FOUND", {}))
           ELSE Answer(p, call, Response("HTTP_200_OK", {domain_config}))
    /\ UNCHANGED <<short_urls, click_analytics, now, USE_TZ, allocVars,
                   resolveVars, expiryVars>>

(***************************************************************************)
(* internal_views.py: remove_domain up to its write.                       *)
(***************************************************************************)
remove_domain(p, domain, hard_delete) ==
    /\ Idle(p)
    /\ LET call == Call("remove", domain, [hard_delete |-> hard_delete])
           domain_config == first(filter_domain(domain_configurations,
                                                lower(domain)))
       IN  IF domain_config = NoConfig
           THEN Answer(p, call, Response("HTTP_404_NOT_FOUND", {}))
           ELSE IF hard_delete
                THEN Proceed(p, call, domain_config, "delete")
                ELSE Proceed(p, call, deactivate(domain_config), "save")
    /\ UNCHANGED <<short_urls, click_analytics, now, USE_TZ, allocVars,
                   resolveVars, expiryVars>>

(***************************************************************************)
(* internal_views.py: list_account_domains.  The answer is the set of the  *)
(* rows; their order is not modelled.                                      *)
(***************************************************************************)
list_account_domains(p, account_id, active_only) ==
    /\ Idle(p)
    /\ LET call == Call("list", NoDomain, [account_id |-> account_id,
                                           active_only |-> active_only])
           queryset == {r \in domain_configurations :
                           /\ r.account_id = account_id
                           /\ active_only => r.is_active}
       IN  Answer(p, call, Response("HTTP_200_OK", queryset))
    /\ UNCHANGED <<short_urls, click_analytics, now, USE_TZ, allocVars,
                   resolveVars, expiryVars>>

(***************************************************************************)
(* internal_views.py: update_domain_ssl_status up to its write.  The       *)
(* ValueError of parse_datetime is not caught by the handler: the request  *)
(* is answered 500 and nothing is written.                                 *)
(***************************************************************************)
update_domain_ssl_status(p, domain, body) ==
    /\ Idle(p)
    /\ LET call == Call("update_ssl", domain, body)
           domain_config == first(filter_domain(domain_configurations,
                                                lower(domain)))
       IN  IF domain_config = NoConfig
           THEN Answer(p, call, Response("HTTP_404_NOT_FOUND", {}))
           ELSE IF report_ssl(domain_config, body) = ParserError
                THEN Answer(p, call,
                            Response("HTTP_500_INTERNAL_SERVER_ERROR", {}))
                ELSE Proceed(p, call, report_ssl(domain_config, body), "save")
    /\ UNCHANGED <<short_urls, click_analytics, now, USE_TZ, allocVars,
                   resolveVars, expiryVars>>

(***************************************************************************)
(* config/urls.py: caddy_validate_domain.                                  *)
(***************************************************************************)
is_allowed_verified(table, domain) ==
    \E r \in table : r.domain = domain /\ r.is_active /\ r.is_verified

is_allowed(table, domain) ==
    \E r \in table : r.domain = domain /\ r.is_active

caddy_validate_domain(p, name) ==
    /\ Idle(p)
    /\ LET call == Call("is_allowed", name, <<>>)
           domain == lower(name)
       IN  IF domain = NoDomain
           THEN Answer(p, call, JsonResponse("400", FALSE))
           ELSE IF is_allowed(domain_configurations, domain)
                THEN Answer(p, call, JsonResponse("200", TRUE))
                ELSE Answer(p, call, JsonResponse("403", FALSE))
    /\ UNCHANGED <<short_urls, click_analytics, now, USE_TZ, allocVars,
                   resolveVars, expiryVars>>

(***************************************************************************)
(* The writes: existing.save() and domain_config.save(),                   *)
(* objects.create(...) and domain_config.delete().  configure_domain       *)
(* catches IntegrityError and answers 500; in remove_domain and            *)
(* update_domain_ssl_status it escapes the handler, which the server       *)
(* answers with 500 as well.                                               *)
(***************************************************************************)
Held == {dobj[q] : q \in DOMAIN dobj}

Written(p, result, response) ==
    /\ domain_configurations' = result.table
    /\ dresp' = [dresp EXCEPT ![p] =
           IF result.IntegrityError
           THEN Response("HTTP_500_INTERNAL_SERVER_ERROR", {})
           ELSE response]
    /\ dpc' = [dpc EXCEPT ![p] = "done"]

SaveConfig(p) ==
    /\ dpc[p] = "save"
    /\ Written(p, save(domain_configurations, dobj[p]),
               Response("HTTP_200_OK", {dobj[p]}))
    /\ UNCHANGED <<dreq, dobj>>
    /\ UNCHANGED <<short_urls, click_analytics, now, USE_TZ, allocVars,
                   resolveVars, expiryVars>>

CreateConfig(p) ==
    /\ dpc[p] = "create"
    /\ LET result == create(domain_configurations, Held, dobj[p])
           created == result.table \ domain_configurations
       IN  /\ Written(p, result, Response("HTTP_201_CREATED", created))
           /\ dobj' = [dobj EXCEPT ![p] =
                  IF result.IntegrityError THEN @ ELSE first(created)]
    /\ UNCHANGED dreq
    /\ UNCHANGED <<short_urls, click_analytics, now, USE_TZ, allocVars,
                   resolveVars, expiryVars>>

DeleteConfig(p) ==
    /\ dpc[p] = "delete"
    /\ Written(p, delete(domain_configurations, dobj[p]),
               Response("HTTP_200_OK", {}))
    /\ UNCHANGED <<dreq, dobj>>
    /\ UNCHANGED <<short_urls, click_analytics, now, USE_TZ, allocVars,
                   resolveVars, expiryVars>>

(***************************************************************************)
(* The response is returned; the caller may issue its next request.        *)
(***************************************************************************)
Return(p) ==
    /\ dpc[p] = "done"
    /\ dpc' = [dpc EXCEPT ![p] = "idle"]
    /\ dreq' = [dreq EXCEPT ![p] = NoCall]
    /\ dobj' = [dobj EXCEPT ![p] = NoConfig]
    /\ dresp' = [dresp EXCEPT ![p] = NoResponse]
    /\ UNCHANGED domain_configurations
    /\ UNCHANGED <<short_urls, click_analytics, now, USE_TZ, allocVars,
                   resolveVars, expiryVars>>

InitRegistry ==
    /\ domain_configurations = {}
    /\ dpc = [p \in RegistryProcs |-> "idle"]
    /\ dreq = [p \in RegistryProcs |-> NoCall]
    /\ dobj = [p \in RegistryProcs |-> NoConfig]
    /\ dresp = [p \in RegistryProcs |-> NoResponse]

InitStore ==
    /\ short_urls = {}
    /\ click_analytics = {}
    /\ apc = [p \in AllocProcs |-> "idle"]
    /\ req = [p \in AllocProcs |-> NoRequestBody]
    /\ inst = [p \in AllocProcs |-> NoInstance]
    /\ attempt = [p \in AllocProcs |-> 0]
    /\ generated = [p \in AllocProcs |-> 0]
    /\ inserts = [p \in AllocProcs |-> 0]
    /\ resp = [p \in AllocProcs |-> "none"]
    /\ rpc = [q \in ResolveProcs |-> "idle"]
    /\ rreq = [q \in ResolveProcs |-> <<"", Code(0, 0)>>]
    /\ obj = [q \in ResolveProcs |-> NoRow]
    /\ pending = [q \in ResolveProcs |-> {}]
    /\ out = [q \in ResolveProcs |-> NoOutcome]
    /\ InitRegistry

Init ==
    /\ InitStore
    /\ now = 0
    /\ USE_TZ = TRUE
    /\ exp_in = NoneValue
    /\ exp_out = "none"
    /\ ser_out = "none"

AllocNext ==
    \/ \E p \in AllocProcs, body \in AllocBodies : AllocateStart(p, body)
    \/ \E p \in AllocProcs : SaveWithCode(p)
    \/ \E p \in AllocProcs : SaveTryCode(p)
    \/ \E p \in AllocProcs : SaveFallback(p)
    \/ \E p \in AllocProcs : Insert(p)

Spec == Init /\ [][AllocNext]_vars

(***************************************************************************)
(* Allocation without a code against a store that earlier allocations      *)
(* have filled: any set of generated codes may already be taken on the     *)
(* domain.  The rows are those the INSERTs of these codes leave.           *)
(***************************************************************************)
SeedCodes ==
    generate_short_code(DefaultLength) \cup generate_short_code(FallbackLength)

RECURSIVE StoreOf(_)
StoreOf(codes) ==
    IF codes = {} THEN {}
    ELSE LET code == CHOOSE c \in codes : TRUE
             rest == StoreOf(codes \ {code})
         IN rest \cup {NewRow(rest, [domain |-> Localhost,
                                     short_code |-> Some(code),
                                     original_url |-> UrlHttp,
                                     expires_at |-> NoneValue])}

InitSeeded ==
    /\ \E codes \in SUBSET SeedCodes : short_urls = StoreOf(codes)
    /\ click_analytics = {}
    /\ apc = [p \in AllocProcs |-> "idle"]
    /\ req = [p \in AllocProcs |-> NoRequestBody]
    /\ inst = [p \in AllocProcs |-> NoInstance]
    /\ attempt = [p \in AllocProcs |-> 0]
    /\ generated = [p \in AllocProcs |-> 0]
    /\ inserts = [p \in AllocProcs |-> 0]
    /\ resp = [p \in AllocProcs |-> "none"]
    /\ rpc = [q \in ResolveProcs |-> "idle"]
    /\ rreq = [q \in ResolveProcs |-> <<"", Code(0, 0)>>]
    /\ obj = [q \in ResolveProcs |-> NoRow]
    /\ pending = [q \in ResolveProcs |-> {}]
    /\ out = [q \in ResolveProcs |-> NoOutcome]
    /\ InitRegistry
    /\ now = 0
    /\ USE_TZ = TRUE
    /\ exp_in = NoneValue
    /\ exp_out = "none"
    /\ ser_out = "none"

AutoBody ==
    [original_url |-> UrlHttp, domain |-> "", host |-> NoRequest,
     short_code |-> Blank, expires_at |-> NoneValue]

AutoProcs == {1, 2}

AutoNext ==
    \/ \E p \in AutoProcs : AllocateStart(p, AutoBody)
    \/ \E p \in AutoProcs : SaveTryCode(p)
    \/ \E p \in AutoProcs : SaveFallback(p)
    \/ \E p \in AutoProcs : Insert(p)

SpecAuto == InitSeeded /\ [][AutoNext]_vars

(***************************************************************************)
(* A request handler that can take a step eventually takes it: the server  *)
(* runs every request to its response.                                     *)
(***************************************************************************)
AllocStep(p) == SaveTryCode(p) \/ SaveFallback(p) \/ Insert(p)

SpecAutoFair == SpecAuto /\ \A p \in AutoProcs : WF_vars(AllocStep(p))

(***************************************************************************)
(* resolve(domain, code): the lookup and the checks of the redirect.       *)
(* NotFound without a row, Inactive when is_active is false, Expired when  *)
(* is_expired answers True (an exception in the check does not block the   *)
(* redirect), else the original_url of the row.                            *)
(***************************************************************************)
Lookup(table, domain, code) ==
    {r \in table : r.domain = domain /\ r.short_code = code}

ResolveOutcome(table, domain, code, t) ==
    LET found == Lookup(table, domain, code) IN
    IF found = {} THEN Failure("NotFound")
    ELSE LET r == CHOOSE x \in found : TRUE IN
         IF ~r.is_active THEN Failure("Inactive")
         ELSE IF is_expired(r.expires_at, t) = "True" THEN Failure("Expired")
         ELSE [status |-> "Redirect", url |-> r.original_url]

SideEffects == {"increment_clicks", "click_analytics"}

Resolve(q, domain, code) ==
    /\ rpc[q] = "idle"
    /\ rreq' = [rreq EXCEPT ![q] = <<domain, code>>]
    /\ LET outcome == ResolveOutcome(short_urls, domain, code, now) IN
       /\ out' = [out EXCEPT ![q] = outcome]
       /\ IF outcome.status = "Redirect"
          THEN /\ obj' = [obj EXCEPT ![q] =
                      CHOOSE x \in Lookup(short_urls, domain, code) : TRUE]
               /\ pending' = [pending EXCEPT ![q] = SideEffects]
               /\ rpc' = [rpc EXCEPT ![q] = "effects"]
          ELSE /\ obj' = obj
               /\ pending' = pending
               /\ rpc' = [rpc EXCEPT ![q] = "done"]
    /\ UNCHANGED registryVars
    /\ UNCHANGED <<short_urls, click_analytics, now, USE_TZ, allocVars,
                   expiryVars>>

(***************************************************************************)
(* The two side effects of a successful resolve, in either order.          *)
(***************************************************************************)
Finish(q, effect) ==
    /\ pending' = [pending EXCEPT ![q] = @ \ {effect}]
    /\ rpc' = [rpc EXCEPT ![q] =
                  IF pending[q] = {effect} THEN "done" ELSE "effects"]

IncrementClicks(q) ==
    /\ rpc[q] = "effects"
    /\ "increment_clicks" \in pending[q]
    /\ short_urls' = increment_clicks(short_urls, obj[q])
    /\ Finish(q, "increment_clicks")
    /\ UNCHANGED registryVars
    /\ UNCHANGED <<click_analytics, now, USE_TZ, allocVars, rreq, obj, out,
                   expiryVars>>

CreateClickAnalytics(q) ==
    /\ rpc[q] = "effects"
    /\ "click_analytics" \in pending[q]
    /\ click_analytics' = click_analytics \cup
          {[id |-> Cardinality(click_analytics) + 1,
            short_url |-> obj[q].id]}
    /\ Finish(q, "click_analytics")
    /\ UNCHANGED registryVars
    /\ UNCHANGED <<short_urls, now, USE_TZ, allocVars, rreq, obj, out,
                   expiryVars>>

Tick ==
    /\ now < MaxTime
    /\ now' = now + 1
    /\ UNCHANGED registryVars
    /\ UNCHANGED <<short_urls, click_analytics, USE_TZ, allocVars,
                   resolveVars, expiryVars>>

(***************************************************************************)
(* Concurrent clicks: allocations with explicit codes fill the store and   *)
(* resolve requests run against it.                                        *)
(***************************************************************************)
ClickBodies ==
    [original_url : {UrlHttp},
     domain : {""},
     host : Hosts,
     short_code : {Some(c) : c \in ExplicitCodes},
     expires_at : {NoneValue}]

ClicksNext ==
    \/ \E p \in AllocProcs, body \in ClickBodies : AllocateStart(p, body)
    \/ \E p \in AllocProcs : SaveWithCode(p)
    \/ \E p \in AllocProcs : Insert(p)
    \/ \E q \in ResolveProcs, d \in Hosts, c \in ExplicitCodes :
          Resolve(q, d, c)
    \/ \E q \in ResolveProcs : IncrementClicks(q)
    \/ \E q \in ResolveProcs : CreateClickAnalytics(q)

SpecClicks == Init /\ [][ClicksNext]_vars

(***************************************************************************)
(* Allocation followed by resolution while the clock advances.             *)
(***************************************************************************)
RoundTripAllocs == {1, 2}
RoundTripResolvers == {1}
RoundTripExpiries == {0, 1}

RoundTripBodies ==
    [original_url : {UrlHttp, UrlHttps},
     domain : {""},
     host : Hosts,
     short_code : {Blank, Some(Code(5, 1))},
     expires_at : {NoneValue} \cup
                  {DateTime(t, TRUE) : t \in RoundTripExpiries}]

RoundTripCodes == {Code(5, 1)} \cup generate_short_code(DefaultLength)

RoundTripNext ==
    \/ \E p \in RoundTripAllocs, body \in RoundTripBodies :
          AllocateStart(p, body)
    \/ \E p \in RoundTripAllocs : SaveWithCode(p)
    \/ \E p \in RoundTripAllocs : SaveTryCode(p)
    \/ \E p \in RoundTripAllocs : Insert(p)
    \/ \E q \in RoundTripResolvers, d \in Hosts, c \in RoundTripCodes :
          Resolve(q, d, c)
    \/ \E q \in RoundTripResolvers : IncrementClicks(q)
    \/ \E q \in RoundTripResolvers : CreateClickAnalytics(q)
    \/ Tick

SpecRoundTrip == Init /\ [][RoundTripNext]_vars

(***************************************************************************)
(* The expiry check as a function of expires_at and the clock: every       *)
(* value the field can hold, structured or string-encoded.                 *)
(***************************************************************************)
MaxStrLen == 2

Strings == UNION {[1..n -> ExpiryChars] : n \in 0..MaxStrLen}

ExpiryValues(tz) ==
    {NoneValue} \cup {DateTime(t, tz) : t \in Times} \cup
    {Str(chars) : chars \in Strings}

InitExpiry ==
    /\ InitStore
    /\ now \in Times
    /\ USE_TZ \in BOOLEAN
    /\ exp_in \in ExpiryValues(USE_TZ)
    /\ exp_out = "none"
    /\ ser_out = "none"

CallIsExpired ==
    /\ exp_out = "none"
    /\ exp_out' = is_expired(exp_in, now)
    /\ UNCHANGED registryVars
    /\ UNCHANGED <<short_urls, click_analytics, now, USE_TZ, allocVars,
                   resolveVars, exp_in, ser_out>>

CallGetIsExpired ==
    /\ ser_out = "none"
    /\ ser_out' = get_is_expired(exp_in, now)
    /\ UNCHANGED registryVars
    /\ UNCHANGED <<short_urls, click_analytics, now, USE_TZ, allocVars,
                   resolveVars, exp_in, exp_out>>

ExpiryNext == CallIsExpired \/ CallGetIsExpired

SpecExpiry == InitExpiry /\ [][ExpiryNext]_vars

(***************************************************************************)
(* The requests of the domain registry.  A body of configure leaves out    *)
(* the optional fields or gives them all; a body of update_ssl_status      *)
(* reports a certificate, a status alone, a status that is none of         *)
(* SSL_STATUS_CHOICES, nothing at all, or dates that parse to None or      *)
(* raise.                                                                  *)
(***************************************************************************)
ConfigureDefaults(domain, account_id) ==
    [domain |-> domain, account_id |-> account_id, domain_type |-> Blank,
     use_caddy |-> Blank, notes |-> Blank]

ConfigureFull(domain, account_id, domain_type) ==
    [domain |-> domain, account_id |-> account_id,
     domain_type |-> Some(domain_type), use_caddy |-> Some(FALSE),
     notes |-> Some(<<"n">>)]

ConfigureBodies ==
    {ConfigureDefaults(DomA, Some(1)),
     ConfigureFull(DomAUpper, Some(2), "payment"),
     ConfigureDefaults(DomB, Some(1)),
     ConfigureDefaults(DomNoTld, Some(1)),
     ConfigureDefaults(DomHyphen, Some(1)),
     ConfigureDefaults(DomA, Blank),
     ConfigureFull(DomA, Some(2), "bogus")}

SslBody(ssl_status, ssl_issued_at, ssl_expires_at) ==
    [ssl_status |-> ssl_status, ssl_issued_at |-> ssl_issued_at,
     ssl_expires_at |-> ssl_expires_at]

SslBodies ==
    {SslBody(Some("active"), Some(<<"1">>), Some(<<"2">>)),
     SslBody(Some("failed"), Blank, Blank),
     SslBody(Some("expired"), Blank, Some(<<"x">>)),
     SslBody(Some("revoked"), Blank, Blank),
     SslBody(Blank, Blank, Blank),
     SslBody(Some("active"), Some(<<"1", "2">>), Blank)}

DomainNames == {DomAUpper, DomB}
AccountIds == {1, 2}

RegistryCall(p) ==
    \/ \E body \in ConfigureBodies : configure_domain(p, body)
    \/ \E domain \in DomainNames : get_domain_status(p, domain)
    \/ \E domain \in DomainNames, hard_delete \in BOOLEAN :
           remove_domain(p, domain, hard_delete)
    \/ \E account_id \in AccountIds, active_only \in BOOLEAN :
           list_account_domains(p, account_id, active_only)
    \/ \E domain \in DomainNames, body \in SslBodies :
           update_domain_ssl_status(p, domain, body)
    \/ \E name \in DomainNames \cup {NoDomain} : caddy_validate_domain(p, name)

RegistryWrite(p) == SaveConfig(p) \/ CreateConfig(p) \/ DeleteConfig(p)

(***************************************************************************)
(* Requests served one at a time.                                          *)
(***************************************************************************)
SequentialNext ==
    \/ \E p \in SequentialProcs : RegistryCall(p)
    \/ \E p \in SequentialProcs : RegistryWrite(p)
    \/ \E p \in SequentialProcs : Return(p)

SpecSequential == Init /\ [][SequentialNext]_vars

(***************************************************************************)
(* Requests served concurrently: the reads and writes of different         *)
(* requests interleave.                                                    *)
(***************************************************************************)
ConcurrentConfigureBodies ==
    {ConfigureDefaults(DomA, Some(1)),
     ConfigureFull(DomAUpper, Some(2), "payment")}

ConcurrentSslBodies ==
    {SslBody(Some("active"), Some(<<"1">>), Blank),
     SslBody(Some("revoked"), Blank, Blank)}

RegistryNext ==
    \/ \E p \in RegistryProcs, body \in ConcurrentConfigureBodies :
           configure_domain(p, body)
    \/ \E p \in RegistryProcs, hard_delete \in BOOLEAN :
           remove_domain(p, DomAUpper, hard_delete)
    \/ \E p \in RegistryProcs, body \in ConcurrentSslBodies :
           update_domain_ssl_status(p, DomAUpper, body)
    \/ \E p \in RegistryProcs : caddy_validate_domain(p, DomAUpper)
    \/ \E p \in RegistryProcs : RegistryWrite(p)
    \/ \E p \in RegistryProcs : Return(p)

SpecRegistry == Init /\ [][RegistryNext]_vars

(***************************************************************************)
(* A configured domain on which no configure call is made any more: soft   *)
(* removes, certificate reports and allow checks of concurrent requests.   *)
(* The record is as a configure call left it, or as a report of an active  *)
(* certificate left it after that.                                         *)
(***************************************************************************)
ConfiguredRecords ==
    LET created == {[new_config(validated_data(body)) EXCEPT !.id = 1] :
                        body \in ConcurrentConfigureBodies}
    IN  created \cup
        {report_ssl(r, SslBody(Some("active"), Some(<<"1">>), Blank)) :
             r \in created}

InitConfigured ==
    /\ short_urls = {}
    /\ click_analytics = {}
    /\ apc = [p \in AllocProcs |-> "idle"]
    /\ req = [p \in AllocProcs |-> NoRequestBody]
    /\ inst = [p \in AllocProcs |-> NoInstance]
    /\ attempt = [p \in AllocProcs |-> 0]
    /\ generated = [p \in AllocProcs |-> 0]
    /\ inserts = [p \in AllocProcs |-> 0]
    /\ resp = [p \in AllocProcs |-> "none"]
    /\ rpc = [q \in ResolveProcs |-> "idle"]
    /\ rreq = [q \in ResolveProcs |-> <<"", Code(0, 0)>>]
    /\ obj = [q \in ResolveProcs |-> NoRow]
    /\ pending = [q \in ResolveProcs |-> {}]
    /\ out = [q \in ResolveProcs |-> NoOutcome]
    /\ now = 0
    /\ USE_TZ = TRUE
    /\ exp_in = NoneValue
    /\ exp_out = "none"
    /\ ser_out = "none"
    /\ \E r \in ConfiguredRecords : domain_configurations = {r}
    /\ dpc = [p \in RegistryProcs |-> "idle"]
    /\ dreq = [p \in RegistryProcs |-> NoCall]
    /\ dobj = [p \in RegistryProcs |-> NoConfig]
    /\ dresp = [p \in RegistryProcs |-> NoResponse]

SoftRemoveNext ==
    \/ \E p \in RegistryProcs : remove_domain(p, DomAUpper, FALSE)
    \/ \E p \in RegistryProcs, body \in ConcurrentSslBodies :
           update_domain_ssl_status(p, DomAUpper, body)
    \/ \E p \in RegistryProcs : caddy_validate_domain(p, DomAUpper)
    \/ \E p \in RegistryProcs : SaveConfig(p)
    \/ \E p \in RegistryProcs : Return(p)

SpecSoftRemove == InitConfigured /\ [][SoftRemoveNext]_vars

(***************************************************************************)
(* models.py: DomainConfiguration.mark_ssl_active, called for every        *)
(* selected record by the admin action mark_ssl_active.  Its               *)
(* save(update_fields=...) is an UPDATE of the named fields of the row     *)
(* with the key of the instance.                                           *)
(***************************************************************************)
mark_ssl_active(self, t) ==
    [self EXCEPT !.ssl_status = "active",
                 !.ssl_issued_at = timezone_now(t),
                 !.is_verified = TRUE]

save_update_fields(table, self) ==
    {IF r.id = self.id
     THEN [r EXCEPT !.ssl_status = self.ssl_status,
                    !.ssl_issued_at = self.ssl_issued_at,
                    !.is_verified = self.is_verified]
     ELSE r : r \in table}

RecordNamed(domain) == first(filter_domain(domain_configurations, domain))

MarkSslActive(domain) ==
    /\ filter_domain(domain_configurations, domain) # {}
    /\ domain_configurations' =
           save_update_fields(
               domain_configurations,
               mark_ssl_active(RecordNamed(domain), now))
    /\ UNCHANGED <<dpc, dreq, dobj, dresp>>
    /\ UNCHANGED <<short_urls, click_analytics, now, USE_TZ, allocVars,
                   resolveVars, expiryVars>>

(***************************************************************************)
(* Requests served one at a time, the admin action among them: it runs     *)
(* when no request of the registry is between its read and its write.      *)
(***************************************************************************)
NoneInFlight == \A p \in RegistryProcs : dpc[p] \in {"idle", "done"}

SequentialAdminNext ==
    \/ \E p \in SequentialProcs : RegistryCall(p)
    \/ \E p \in SequentialProcs : RegistryWrite(p)
    \/ \E p \in SequentialProcs : Return(p)
    \/ \E domain \in {DomA, DomB} : NoneInFlight /\ MarkSslActive(domain)

SpecSequentialAdmin == Init /\ [][SequentialAdminNext]_vars

(***************************************************************************)
(* Properties.                                                             *)
(***************************************************************************)
Explicit(p) == Truthy(req[p].short_code)
Valid(p) == apc[p] # "idle" /\ resp[p] # "ValidationError"
ReqDomain(p) == create_domain(req[p].domain, req[p].host)
Rejected(p) == resp[p] \in {"ConflictError", "AllocationExhausted"}
Redirected(q) == rpc[q] # "idle" /\ out[q].status = "Redirect"

\* C1: no two rows of short_urls share the same (domain, short_code) pair.
C1_UniquePair ==
    \A r1, r2 \in short_urls :
        (r1.domain = r2.domain /\ r1.short_code = r2.short_code) => r1 = r2

C1_Witness ==
    \E p, q \in AllocProcs :
        /\ resp[p] = "Created" /\ resp[q] = "Created"
        /\ Explicit(p) /\ ~Explicit(q)
        /\ inst[p].domain = inst[q].domain
        /\ Cardinality(short_urls) >= 2

\* C2: of two finished allocate calls with the same explicit code on the
\* same domain, the pair not being stored by any other call, exactly one
\* succeeds and persists the one row of that pair, and the other fails
\* with ConflictError.
C2_ExactlyOneWins ==
    \A p, q \in AllocProcs :
        ( /\ p # q
          /\ apc[p] = "done" /\ apc[q] = "done"
          /\ Valid(p) /\ Valid(q)
          /\ Explicit(p) /\ Explicit(q)
          /\ ReqDomain(p) = ReqDomain(q)
          /\ req[p].short_code = req[q].short_code
          /\ \A o \in AllocProcs \ {p, q} :
                ~( /\ resp[o] = "Created"
                   /\ inst[o].domain = ReqDomain(p)
                   /\ inst[o].short_code = req[p].short_code ) )
        => /\ \/ resp[p] = "Created" /\ resp[q] = "ConflictError"
              \/ resp[p] = "ConflictError" /\ resp[q] = "Created"
           /\ Cardinality(Lookup(short_urls, ReqDomain(p),
                                 Get(req[p].short_code))) = 1

C2_Witness ==
    \E p, q \in AllocProcs :
        /\ p # q
        /\ Explicit(p) /\ Explicit(q)
        /\ ReqDomain(p) = ReqDomain(q)
        /\ req[p].short_code = req[q].short_code
        /\ resp[p] = "Created" /\ resp[q] = "ConflictError"

C4_NoLostUpdate ==
    \A r \in short_urls :
        r.clicks = Cardinality({q \in ResolveProcs :
                                   /\ Redirected(q)
                                   /\ obj[q].id = r.id
                                   /\ "increment_clicks" \notin pending[q]})

C4_Witness ==
    \E r1, r2 \in short_urls :
        /\ r1.clicks = 2
        /\ r2.id # r1.id /\ r2.clicks = 0
        /\ \A q \in ResolveProcs : rpc[q] = "done"

\* C5: once no resolve call on a row still has a side effect to run, the
\* clicks of the row equal the number of ClickAnalytics rows it owns.
C5_ClicksEqualAnalytics ==
    \A r \in short_urls :
        (\A q \in ResolveProcs : ~(rpc[q] = "effects" /\ obj[q].id = r.id))
        => r.clicks = Cardinality({a \in click_analytics : a.short_url = r.id})

C5_Witness ==
    \E r \in short_urls :
        /\ \A q \in ResolveProcs : rpc[q] = "done" /\ obj[q].id = r.id
        /\ r.clicks = NumResolve
        /\ Cardinality({a \in click_analytics : a.short_url = r.id}) = NumResolve

\* C6 as claimed: right after a successful allocate, resolve on the
\* (domain, short_code) of the created entity returns its original_url.
AllocateSucceeds(p) == resp[p] = "none" /\ resp'[p] = "Created"

ResolveRightAfter(p) ==
    ResolveOutcome(short_urls', inst'[p].domain, Get(inst'[p].short_code), now')

C6_RoundTrip ==
    [][\A p \in AllocProcs :
          AllocateSucceeds(p)
          => ResolveRightAfter(p) =
                [status |-> "Redirect", url |-> req'[p].original_url]]_vars

\* C6 as amended: right after a successful allocate whose expires_at is
\* not set or is not earlier than the current time, resolve on the
\* (domain, short_code) of the created entity returns its original_url.
NotYetPast(expires_at, t) ==
    expires_at.kind = "none" \/ expires_at.t >= t

C6_RoundTripUnexpired ==
    [][\A p \in AllocProcs :
          (AllocateSucceeds(p) /\ NotYetPast(req'[p].expires_at, now'))
          => ResolveRightAfter(p) =
                [status |-> "Redirect", url |-> req'[p].original_url]]_vars

C6_Witness ==
    \E p \in AllocProcs, q \in ResolveProcs :
        /\ resp[p] = "Created"
        /\ req[p].expires_at.kind = "datetime"
        /\ rreq[q] = <<inst[p].domain, Get(inst[p].short_code)>>
        /\ out[q] = [status |-> "Redirect", url |-> req[p].original_url]
        /\ req[p].original_url = UrlHttps

\* C7: an INSERT is rejected only when a row with the same code exists on
\* the same domain, and the existence check of save reports a collision
\* only when the domain of the instance holds a row of a generated code;
\* rows of other domains never count.
C7_DomainScoped ==
    \A p \in AllocProcs :
        /\ Rejected(p)
           => Lookup(short_urls, inst[p].domain, Get(inst[p].short_code)) # {}
        /\ attempt[p] > 0 /\ apc[p] = "save"
           => \E code \in generate_short_code(DefaultLength) :
                 Lookup(short_urls, inst[p].domain, code) # {}

C7_Witness ==
    \E r1, r2 \in short_urls :
        /\ r1.domain # r2.domain
        /\ r1.short_code = r2.short_code
        /\ \E p, q \in AllocProcs :
              /\ Explicit(p) /\ ~Explicit(q)
              /\ resp[p] = "Created" /\ resp[q] = "Created"
              /\ inst[p].short_code = inst[q].short_code

\* C8: resolve on an active row answers Expired exactly when expires_at is
\* set and the current time is strictly later than it.
ResolveStep(q) == rpc[q] = "idle" /\ rpc'[q] # "idle"

C8_ExpiredExactlyWhenPast ==
    [][\A q \in ResolveProcs :
          ResolveStep(q)
          => \A r \in Lookup(short_urls, rreq'[q][1], rreq'[q][2]) :
                r.is_active
                => ( out'[q].status = "Expired"
                     <=> (r.expires_at.kind = "datetime"
                          /\ now > r.expires_at.t) )]_vars

C8_Witness ==
    \E q \in ResolveProcs, r \in short_urls :
        /\ out[q].status = "Expired"
        /\ rreq[q] = <<r.domain, r.short_code>>
        /\ r.is_active
        /\ r.expires_at.kind = "datetime" /\ now = r.expires_at.t + 1

\* C9 as claimed: the expiry check never raises; on a string that is not a
\* timestamp it answers not expired, and on a string-encoded timestamp it
\* answers as on the structured timestamp the string encodes.
C9_CheckNeverRaises ==
    exp_out # "none"
    => /\ exp_out \in {"True", "False"}
       /\ (exp_in.kind = "str" /\ parse(exp_in.chars) = ParserError)
          => exp_out = "False"
       /\ (exp_in.kind = "str" /\ parse(exp_in.chars) # ParserError)
          => exp_out = is_expired(
                 DateTime(parse(exp_in.chars).t, USE_TZ), now)

\* C10: the INSERT of an allocate call with an explicit code whose
\* (domain, code) pair exists is the only INSERT of the call, no code was
\* generated, the call fails with ConflictError and the rows are unchanged.
InsertStep(p) == apc[p] = "insert" /\ apc'[p] = "done"

C10_ExplicitConflict ==
    [][\A p \in AllocProcs :
          ( /\ InsertStep(p)
            /\ Explicit(p)
            /\ Lookup(short_urls, ReqDomain(p), Get(req[p].short_code)) # {} )
          => /\ resp'[p] = "ConflictError"
             /\ inserts'[p] = 1
             /\ generated'[p] = 0 /\ attempt'[p] = 0
             /\ short_urls' = short_urls]_vars

C10_Witness ==
    \E p \in AllocProcs :
        /\ Explicit(p)
        /\ resp[p] = "ConflictError"
        /\ inserts[p] = 1 /\ generated[p] = 0
        /\ \E r \in short_urls :
              /\ r.domain = ReqDomain(p)
              /\ r.short_code = Get(req[p].short_code)

\* C11 as claimed: an allocate call without an explicit code fails only
\* after max_attempts generated codes were all found to exist and the
\* INSERT of the longer fallback code was rejected.
C11_FailsOnlyAfterFallback ==
    \A p \in AllocProcs :
        (~Explicit(p) /\ Rejected(p))
        => /\ attempt[p] = max_attempts
           /\ generated[p] = max_attempts + 1
           /\ Get(inst[p].short_code).length = FallbackLength

\* C20: an allocate call without an explicit code generates at most
\* max_attempts codes of the default length and at most one fallback code;
\* it takes a default-length code only when the existence check just found
\* no row for it, repeats only when a generated code exists, takes the
\* fallback code exactly after max_attempts codes were found, issues at
\* most one INSERT, and reaches its response.
Auto(p) == apc[p] # "idle" /\ Valid(p) /\ ~Explicit(p)

C20_Counts ==
    \A p \in AllocProcs :
        Auto(p)
        => /\ attempt[p] <= max_attempts
           /\ generated[p] <= max_attempts + 1
           /\ inserts[p] <= 1
           /\ apc[p] = "save"
              => generated[p] = attempt[p] /\ inserts[p] = 0
           /\ apc[p] \in {"insert", "done"}
              => /\ inserts[p] = (IF apc[p] = "done" THEN 1 ELSE 0)
                 /\ \/ /\ Get(inst[p].short_code).length = DefaultLength
                       /\ generated[p] = attempt[p]
                       /\ attempt[p] >= 1
                    \/ /\ Get(inst[p].short_code).length = FallbackLength
                       /\ attempt[p] = max_attempts
                       /\ generated[p] = max_attempts + 1

C20_Steps ==
    \A p \in AllocProcs :
        /\ (Auto(p) /\ apc[p] = "save" /\ apc'[p] = "insert"
            /\ attempt[p] < max_attempts)
           => /\ ~exists(short_urls, Get(inst'[p].short_code), inst[p].domain)
              /\ Get(inst'[p].short_code).length = DefaultLength
        /\ (Auto(p) /\ apc[p] = "save" /\ apc'[p] = "save"
            /\ attempt'[p] # attempt[p])
           => \E code \in generate_short_code(DefaultLength) :
                 exists(short_urls, code, inst[p].domain)
        /\ (Auto(p) /\ apc[p] = "save" /\ attempt[p] = max_attempts
            /\ generated'[p] # generated[p])
           => /\ apc'[p] = "insert"
              /\ Get(inst'[p].short_code).length = FallbackLength

C20_BoundedGeneration ==
    /\ []C20_Counts
    /\ [][C20_Steps]_vars
    /\ \A p \in AllocProcs : (apc[p] = "save") ~> (apc[p] = "done")

C20_Witness ==
    \E p \in AllocProcs :
        /\ Auto(p)
        /\ apc[p] = "done"
        /\ attempt[p] = max_attempts
        /\ generated[p] = max_attempts + 1
        /\ Get(inst[p].short_code).length = FallbackLength
        /\ resp[p] = "AllocationExhausted"

(***************************************************************************)
(* Steps of the domain registry: the step in which request p starts the    *)
(* given call and the step in which its response is produced.              *)
(***************************************************************************)
Calls(p, op) == dpc[p] = "idle" /\ dpc'[p] # "idle" /\ dreq'[p].op = op

Answered(p, op) == dpc[p] # "done" /\ dpc'[p] = "done" /\ dreq'[p].op = op

Succeeded(p) == dresp'[p].status \in {"HTTP_200_OK", "HTTP_201_CREATED"}

Target(p) == lower(dreq'[p].domain)

ActiveRecord(table, domain) ==
    \E r \in table : r.domain = domain /\ r.is_active

(***************************************************************************)
(* C12: is_allowed answers allow exactly when a record of the domain       *)
(* exists with is_active true, whatever its is_verified and ssl_status:    *)
(* every answer of caddy_validate_domain equals the existence of an active *)
(* record of the lowercased name in the table it reads; when a remove      *)
(* (soft or hard) has succeeded no active record of the domain is left,    *)
(* and when a configure (creating or reactivating) has succeeded there is  *)
(* one.                                                                    *)
(***************************************************************************)
C12_Step ==
    \A p \in RegistryProcs :
        /\ Answered(p, "is_allowed") =>
               dresp'[p].allow = ActiveRecord(domain_configurations, Target(p))
        /\ Answered(p, "remove") /\ Succeeded(p) =>
               ~ActiveRecord(domain_configurations', Target(p))
        /\ Answered(p, "configure") /\ Succeeded(p) =>
               ActiveRecord(domain_configurations', Target(p))

C12_AllowedExactlyWhenActive == [][C12_Step]_vars

(***************************************************************************)
(* Witness of C12: allow is answered for a record that is pending again    *)
(* while verified, which only a reactivating configure after a remove      *)
(* leaves (no update_ssl_status of the model reports pending).             *)
(***************************************************************************)
C12_Witness ==
    \E p \in RegistryProcs :
        /\ dpc[p] = "done"
        /\ dreq[p].op = "is_allowed"
        /\ dresp[p].allow
        /\ \E r \in domain_configurations :
               /\ r.domain = lower(dreq[p].domain)
               /\ r.is_verified
               /\ r.ssl_status = "pending"

(***************************************************************************)
(* What a configure request asks for: the fields it gives and, for those   *)
(* it leaves out, the defaults (forms, True, the empty text).              *)
(***************************************************************************)
Requested(body) ==
    [account_id |-> Get(body.account_id),
     domain_type |-> IF body.domain_type = Blank THEN "forms"
                     ELSE Get(body.domain_type),
     use_caddy |-> IF body.use_caddy = Blank THEN TRUE
                   ELSE Get(body.use_caddy),
     notes |-> IF body.notes = Blank THEN <<>> ELSE Get(body.notes)]

RecordOf(table, domain) == first(filter_domain(table, domain))

(***************************************************************************)
(* C13: every configure call that succeeds, creating or reactivating,      *)
(* leaves the record of its domain with is_active true, ssl_status pending *)
(* and account_id, domain_type, use_caddy and notes as requested; a record *)
(* that the call created has is_verified false.                            *)
(***************************************************************************)
C13_Step ==
    \A p \in RegistryProcs :
        Answered(p, "configure") /\ Succeeded(p) =>
            LET r == RecordOf(domain_configurations', Target(p))
                asked == Requested(dreq'[p].data)
            IN  /\ r # NoConfig
                /\ r.is_active
                /\ r.ssl_status = "pending"
                /\ r.account_id = asked.account_id
                /\ r.domain_type = asked.domain_type
                /\ r.use_caddy = asked.use_caddy
                /\ r.notes = asked.notes
                /\ dresp'[p].status = "HTTP_201_CREATED" => ~r.is_verified

C13_ConfigureSetsFields == [][C13_Step]_vars

(***************************************************************************)
(* Witness of C13: a reactivating configure has succeeded for another      *)
(* account on a record that was verified before.                           *)
(***************************************************************************)
C13_Witness ==
    \E p \in RegistryProcs :
        /\ dpc[p] = "done"
        /\ dreq[p].op = "configure"
        /\ dresp[p].status = "HTTP_200_OK"
        /\ LET r == RecordOf(domain_configurations, lower(dreq[p].domain)) IN
           /\ r.account_id = 2
           /\ r.is_verified
           /\ r.notes = <<"n">>

(***************************************************************************)
(* C14: a configure call with a valid body for a domain whose record       *)
(* exists with is_active true is answered Conflict at once and leaves the  *)
(* table, hence every field of that record, unchanged, also when the body  *)
(* names another account.                                                  *)
(***************************************************************************)
C14_Step ==
    \A p \in RegistryProcs :
        /\ Calls(p, "configure")
        /\ is_valid(dreq'[p].data)
        /\ ActiveRecord(domain_configurations, Target(p))
        => /\ dpc'[p] = "done"
           /\ dresp'[p].status = "HTTP_409_CONFLICT"
           /\ domain_configurations' = domain_configurations

C14_ConflictChangesNothing == [][C14_Step]_vars

(***************************************************************************)
(* Witness of C14: Conflict has been answered to a request of account 2    *)
(* for a domain that account 1 holds.                                      *)
(***************************************************************************)
C14_Witness ==
    \E p \in RegistryProcs :
        /\ dpc[p] = "done"
        /\ dreq[p].op = "configure"
        /\ dresp[p].status = "HTTP_409_CONFLICT"
        /\ dreq[p].data.account_id = Some(2)
        /\ RecordOf(domain_configurations, lower(dreq[p].domain)).account_id = 1

(***************************************************************************)
(* C15: an update_ssl_status call that is carried out on an existing       *)
(* domain with status active leaves the record with ssl_status active and  *)
(* is_verified true; with any other status given it leaves ssl_status      *)
(* equal to that status and is_verified as it was before the call; a call  *)
(* for an unknown domain is answered NotFound and changes no record.       *)
(* Requests are served one after another.                                  *)
(***************************************************************************)
C15_Step ==
    \A p \in RegistryProcs :
        /\ Calls(p, "update_ssl")
           /\ RecordOf(domain_configurations, Target(p)) = NoConfig
           => /\ dpc'[p] = "done"
              /\ dresp'[p].status = "HTTP_404_NOT_FOUND"
              /\ domain_configurations' = domain_configurations
        /\ Answered(p, "update_ssl") /\ Succeeded(p) =>
               LET before == RecordOf(domain_configurations, Target(p))
                   after == RecordOf(domain_configurations', Target(p))
                   status == dreq'[p].data.ssl_status
               IN  /\ after # NoConfig
                   /\ status = Some("active") =>
                          after.ssl_status = "active" /\ after.is_verified
                   /\ status # Blank /\ status # Some("active") =>
                          /\ after.ssl_status = Get(status)
                          /\ after.is_verified = before.is_verified

C16_Step ==
    \A p \in RegistryProcs :
        LET before == RecordOf(domain_configurations, Target(p)) IN
        /\ Calls(p, "remove") /\ before = NoConfig
           => /\ dpc'[p] = "done"
              /\ dresp'[p].status = "HTTP_404_NOT_FOUND"
              /\ domain_configurations' = domain_configurations
        /\ Calls(p, "remove") /\ before # NoConfig
           => /\ dpc'[p] # "done"
              /\ domain_configurations' = domain_configurations
        /\ Answered(p, "remove") /\ Succeeded(p) =>
               domain_configurations' =
                   (domain_configurations \ {before}) \cup
                   (IF dreq'[p].data.hard_delete THEN {}
                    ELSE {[before EXCEPT !.is_active = FALSE]})
        /\ Answered(p, "get_status") =>
               /\ domain_configurations' = domain_configurations
               /\ dresp'[p] = IF before = NoConfig
                              THEN Response("HTTP_404_NOT_FOUND", {})
                              ELSE Response("HTTP_200_OK", {before})

C16_RemoveFrame == [][C16_Step]_vars

(***************************************************************************)
(* Witness of C16: get_status has answered a record that a soft remove     *)
(* left inactive, with its verification and its certificate dates kept.    *)
(***************************************************************************)
C16_Witness ==
    \E p \in RegistryProcs :
        /\ dpc[p] = "done"
        /\ dreq[p].op = "get_status"
        /\ dresp[p].status = "HTTP_200_OK"
        /\ \E r \in dresp[p].data :
               /\ ~r.is_active
               /\ r.is_verified
               /\ r.ssl_status = "active"
               /\ r.ssl_issued_at # NoneValue

(***************************************************************************)
(* C17: in every reachable state the ssl_status of every record is one of  *)
(* pending, active, failed, expired.  update_domain_ssl_status stores the  *)
(* status of the request body as it comes, and save() does not validate    *)
(* the choices of the field: the statement does not hold.                  *)
(***************************************************************************)
C17_SslStatusInChoices ==
    \A r \in domain_configurations : r.ssl_status \in SSL_STATUS_CHOICES

(***************************************************************************)
(* The SSL fields of the records that a step keeps.                        *)
(***************************************************************************)
SslFields(r) == <<r.ssl_status, r.ssl_issued_at, r.ssl_expires_at>>

SslUnchanged(domains) ==
    \A r \in domain_configurations, s \in domain_configurations' :
        r.domain = s.domain /\ r.domain \in domains =>
            SslFields(r) = SslFields(s)

StoredDomains == {r.domain : r \in domain_configurations}

Reactivated(p) ==
    Answered(p, "configure") /\ dresp'[p].status = "HTTP_200_OK"

(***************************************************************************)
(* C18 as stated: only update_ssl_status changes ssl_status, ssl_issued_at *)
(* or ssl_expires_at of a record that exists before and after a call.  A   *)
(* reactivating configure sets ssl_status to pending: the statement does   *)
(* not hold.                                                               *)
(***************************************************************************)
C18_Step ==
    (\A p \in RegistryProcs : ~Answered(p, "update_ssl")) =>
        SslUnchanged(StoredDomains)

C18_AmendedStep ==
    /\ (\A p \in RegistryProcs :
            ~Answered(p, "update_ssl") /\ ~Reactivated(p)) =>
           SslUnchanged(StoredDomains)
    /\ \A p \in RegistryProcs :
           Reactivated(p) =>
               LET before == RecordOf(domain_configurations, Target(p))
                   after == RecordOf(domain_configurations', Target(p))
               IN  /\ after.ssl_status = "pending"
                   /\ after.ssl_issued_at = before.ssl_issued_at
                   /\ after.ssl_expires_at = before.ssl_expires_at
                   /\ SslUnchanged(StoredDomains \ {Target(p)})

C19_OnePerDomain ==
    \A r \in domain_configurations, s \in domain_configurations :
        r.domain = s.domain => r = s

C19_Step ==
    \A p \in RegistryProcs :
        dpc[p] = "create" /\ Answered(p, "configure") =>
            IF RecordOf(domain_configurations, Target(p)) = NoConfig
            THEN /\ dresp'[p].status = "HTTP_201_CREATED"
                 /\ \E r \in domain_configurations' :
                        /\ r.domain = Target(p)
                        /\ domain_configurations' =
                               domain_configurations \cup {r}
            ELSE /\ dresp'[p].status = "HTTP_500_INTERNAL_SERVER_ERROR"
                 /\ domain_configurations' = domain_configurations

C19_ExactlyOneCreates == []C19_OnePerDomain /\ [][C19_Step]_vars

(***************************************************************************)
(* Witness of C19: two configure calls for the same domain have both       *)
(* found it unknown; one has created the record and the other has been     *)
(* answered the error.                                                     *)
(***************************************************************************)
C19_Witness ==
    \E p \in RegistryProcs, q \in RegistryProcs :
        /\ dpc[p] = "done" /\ dpc[q] = "done"
        /\ dreq[p].op = "configure" /\ dreq[q].op = "configure"
        /\ lower(dreq[p].domain) = lower(dreq[q].domain)
        /\ dresp[p].status = "HTTP_201_CREATED"
        /\ dresp[q].status = "HTTP_500_INTERNAL_SERVER_ERROR"
        /\ dresp[p].data = domain_configurations

(***************************************************************************)
(* C21: a completed soft remove is never undone by a concurrently running  *)
(* update_ssl_status.  On a domain for which no configure call starts,     *)
(* whenever a soft remove has been answered success and no                 *)
(* update_ssl_status call on the domain is in flight, the record has       *)
(* is_active false and is_allowed denies the domain.  The save() of         *)
(* update_domain_ssl_status writes every field of the instance it read,    *)
(* is_active included: the statement does not hold.                        *)
(***************************************************************************)
SoftRemoved(p) ==
    /\ dpc[p] = "done"
    /\ dreq[p].op = "remove"
    /\ ~dreq[p].data.hard_delete
    /\ dresp[p].status = "HTTP_200_OK"

UpdateInFlight(q, domain) ==
    /\ dreq[q].op = "update_ssl"
    /\ lower(dreq[q].domain) = domain
    /\ dpc[q] # "done"

C21_SoftRemoveNotUndone ==
    \A p \in RegistryProcs :
        /\ SoftRemoved(p)
        /\ \A q \in RegistryProcs :
               ~UpdateInFlight(q, lower(dreq[p].domain))
        => /\ ~RecordOf(domain_configurations,
                        lower(dreq[p].domain)).is_active
           /\ ~is_allowed(domain_configurations, lower(dreq[p].domain))

(***************************************************************************)
(* C22: with configure, remove and update_ssl_status calls (and the admin  *)
(* action mark_ssl_active) executed one after another, in every reachable  *)
(* state every record with ssl_status active has is_verified true, and no  *)
(* step takes is_verified of a record it keeps from true to false: a       *)
(* reactivating configure sets ssl_status to pending and keeps             *)
(* is_verified.                                                            *)
(***************************************************************************)
C22_ActiveIsVerified ==
    \A r \in domain_configurations : r.ssl_status = "active" => r.is_verified

C22_Step ==
    /\ \A r \in domain_configurations, s \in domain_configurations' :
           r.id = s.id /\ r.is_verified => s.is_verified
    /\ \A p \in RegistryProcs :
           Reactivated(p) =>
               LET before == RecordOf(domain_configurations, Target(p))
                   after == RecordOf(domain_configurations', Target(p))
               IN  /\ after.ssl_status = "pending"
                   /\ after.is_verified = before.is_verified

C22_VerifiedKept == []C22_ActiveIsVerified /\ [][C22_Step]_vars

(***************************************************************************)
(* Witness of C22: a record that mark_ssl_active had verified has been     *)
(* removed and reactivated; it is pending and still verified.              *)
(***************************************************************************)
C22_Witness ==
    \E p \in RegistryProcs :
        /\ dpc[p] = "done"
        /\ dreq[p].op = "configure"
        /\ dresp[p].status = "HTTP_200_OK"
        /\ LET r == RecordOf(domain_configurations, lower(dreq[p].domain)) IN
           /\ r.is_active
           /\ r.is_verified
           /\ r.ssl_status = "pending"
           /\ r.ssl_issued_at = timezone_now(now)

====
